---- MODULE Spec2Model ----
(***************************************************************************)
(* Model of the breakout simulation step of src/src/main.rs and            *)
(* src/src/wall.rs: the entity store built by setup and wall_setup, and    *)
(* the systems move_paddle, apply_velocity, check_for_collisions and       *)
(* update_scoreboard as main schedules them.                               *)
(*                                                                         *)
(* Numbers.  The program computes in f32.  The model computes in exact     *)
(* integers: a length is counted in units of TIME_STEP pixels (1/60 px),   *)
(* so that `translation += velocity * TIME_STEP` adds the velocity in      *)
(* pixels per second to the position without rounding.  Every constant of  *)
(* the program is a whole number of such units.  The one irrational value, *)
(* the start-up velocity component BALL_SPEED / sqrt(2), is rounded to the *)
(* nearest whole pixel per second.  f32 rounding error is not modelled.    *)
(***************************************************************************)
EXTENDS Integers, Sequences, FiniteSets

\* ---------------------------------------------------------------- bounds

\* Fixed ticks a behaviour is followed for: from the program's start-up state,
\* in the straight-drop scenario, in the rally scenario, from the start-up
\* state for long enough for the ball to go round the arena, and in the
\* corner scenario.
MaxTicks == 55
MaxDropTicks == 75
MaxRallyTicks == 120
MaxArenaTicks == 285
MaxCornerTicks == 80

\* The pure reflection rule is checked for velocities in -MaxV..MaxV.
MaxV == 3

\* Rows of the one-column brick grid in the rally scenario.
MaxRallyRows == 2

\* ------------------------------------------------------ program constants

\* const TIME_STEP: f32 = 1.0 / 60.0, as ticks per second.
StepsPerSecond == 60

PADDLE_SIZE_x == 120
PADDLE_SIZE_y == 20
GAP_BETWEEN_PADDLE_AND_FLOOR == 60
PADDLE_SPEED == 500
PADDLE_PADDING == 10

BALL_STARTING_POSITION_x == 0
BALL_STARTING_POSITION_y == -50
BALL_SIZE == 15
BALL_SPEED == 400

WALL_THICKNESS == 10
LEFT_WALL == -450
RIGHT_WALL == 450
BOTTOM_WALL == -300
TOP_WALL == 300

BRICK_SIZE_x == 80
BRICK_SIZE_y == 15
GAP_BETWEEN_PADDLE_AND_BRICKS == 270
GAP_BETWEEN_BRICKS == 40
GAP_BETWEEN_BRICKS_AND_CEILING == 20
GAP_BETWEEN_BRICKS_AND_SIDES == 20

\* Pixels to model units (1 px = StepsPerSecond units).
Px(n) == n * StepsPerSecond

\* Vec3::ONE truncated: the scale of a Transform built with ..default().
DefaultScale == <<Px(1), Px(1)>>

Abs(n) == IF n < 0 THEN -n ELSE n

Max(a, b) == IF a < b THEN b ELSE a

Min(a, b) == IF a < b THEN a ELSE b

\* f32::clamp(self, min, max)
Clamp(v, lo, hi) == Max(lo, Min(v, hi))

\* The nearest integer to sqrt(n).
RoundSqrt(n) == CHOOSE r \in 0..n : (2 * r - 1) * (2 * r - 1) <= 4 * n /\ 4 * n < (2 * r + 1) * (2 * r + 1)

\* INITIAL_BALL_DIRECTION.normalize() * BALL_SPEED with direction (0.5, -0.5):
\* both components have magnitude BALL_SPEED / sqrt(2).
InitialBallVelocity == LET c == RoundSqrt((BALL_SPEED * BALL_SPEED) \div 2) IN <<c, -c>>

\* ------------------------------------------------------------ the state

VARIABLES
  entities,  \* the entity store, in table (query iteration) order: records
             \* [id, kind, translation, scale], with velocity for the ball (the one
             \* entity with a Velocity), cell for a brick and loc for a wall
  score,     \* Scoreboard.score
  keys,      \* <<left pressed, right pressed>> as move_paddle read them in the current tick,
             \* <<>> before it has run
  ran,       \* the systems of the fixed-timestep set that have run in the current tick
  tick,      \* fixed ticks completed
  horizon,   \* the number of ticks the behaviour is followed for
  contacts,  \* the colliders the latest collision pass processed, in order: [id, label, side]
  touched,   \* history: the kinds of collider (walls by location) processed in any pass so far
  hitCells,  \* history: the grid cells <<row, column>> of the bricks processed in any pass so far
  grid,      \* history: <<rows, columns>> of the brick grid setup laid out
  heldLeft,  \* history: T when each of the T paddle moves so far read "left only", else -1
  probe,     \* the reflection rule applied on its own: [v, side, out], or <<>>
  collision_events, \* CollisionEvents sent by the latest collision pass and not read
  cues       \* audio.play calls since the latest collision pass ended

vars == <<entities, score, keys, ran, tick, horizon, contacts, touched, hitCells, grid, heldLeft, probe, collision_events, cues>>

\* --------------------------------------------------------------- wall.rs

WallLocations == <<"Right", "Left", "Bottom", "Top">>

\* WallLocation::position
WallPosition(loc) ==
  CASE loc = "Left" -> <<Px(LEFT_WALL), 0>>
    [] loc = "Right" -> <<Px(RIGHT_WALL), 0>>
    [] loc = "Bottom" -> <<0, Px(BOTTOM_WALL)>>
    [] loc = "Top" -> <<0, Px(TOP_WALL)>>

\* WallLocation::size
WallSize(loc) ==
  LET arena_height == Px(TOP_WALL) - Px(BOTTOM_WALL)
      arena_width == Px(RIGHT_WALL) - Px(LEFT_WALL)
  IN IF loc \in {"Left", "Right"}
       THEN <<Px(WALL_THICKNESS), arena_height + Px(WALL_THICKNESS)>>
       ELSE <<arena_width + Px(WALL_THICKNESS), Px(WALL_THICKNESS)>>

\* wall_setup: one collider per location, translation loc.position(), scale loc.size().
WallEntities(firstId) ==
  [i \in 1..Len(WallLocations) |->
     [id |-> firstId + i - 1, kind |-> "Wall", loc |-> WallLocations[i],
      translation |-> WallPosition(WallLocations[i]), scale |-> WallSize(WallLocations[i])]]

\* --------------------------------------------------------------- setup

paddle_y == Px(BOTTOM_WALL) + Px(GAP_BETWEEN_PADDLE_AND_FLOOR)

total_width_of_bricks == (RIGHT_WALL - LEFT_WALL) - 2 * GAP_BETWEEN_BRICKS_AND_SIDES

bottom_edge_of_bricks == paddle_y + Px(GAP_BETWEEN_PADDLE_AND_BRICKS)

total_height_of_bricks == TOP_WALL - (BOTTOM_WALL + GAP_BETWEEN_PADDLE_AND_FLOOR + GAP_BETWEEN_PADDLE_AND_BRICKS) - GAP_BETWEEN_BRICKS_AND_CEILING

\* (total_width_of_bricks / (BRICK_SIZE.x + GAP_BETWEEN_BRICKS)).floor() as usize
n_columns == total_width_of_bricks \div (BRICK_SIZE_x + GAP_BETWEEN_BRICKS)

n_rows == total_height_of_bricks \div (BRICK_SIZE_y + GAP_BETWEEN_BRICKS)

\* The position of the brick at (row, column) in a grid of nc columns.
BrickPosition(row, column, nc) ==
  LET n_vertical_gaps == nc - 1
      center_of_bricks == (Px(LEFT_WALL) + Px(RIGHT_WALL)) \div 2
      left_edge_of_bricks == center_of_bricks - (nc * Px(BRICK_SIZE_x)) \div 2
                               - (n_vertical_gaps * Px(GAP_BETWEEN_BRICKS)) \div 2
      offset_x == left_edge_of_bricks + Px(BRICK_SIZE_x) \div 2
      offset_y == bottom_edge_of_bricks + Px(BRICK_SIZE_y) \div 2
  IN <<offset_x + column * (Px(BRICK_SIZE_x) + Px(GAP_BETWEEN_BRICKS)),
       offset_y + row * (Px(BRICK_SIZE_y) + Px(GAP_BETWEEN_BRICKS))>>

PaddleEntity(id) ==
  [id |-> id, kind |-> "Paddle", translation |-> <<0, paddle_y>>, scale |-> DefaultScale]

BallEntity(id, v) ==
  [id |-> id, kind |-> "Ball", velocity |-> v,
   translation |-> <<Px(BALL_STARTING_POSITION_x), Px(BALL_STARTING_POSITION_y)>>,
   scale |-> DefaultScale]

\* The brick loop: row-major, nr rows of nc columns.
BrickEntities(firstId, nr, nc) ==
  [k \in 1..(nr * nc) |->
     LET row == (k - 1) \div nc
         column == (k - 1) % nc
     IN [id |-> firstId + k - 1, kind |-> "Brick", cell |-> <<row, column>>,
         translation |-> BrickPosition(row, column, nc), scale |-> DefaultScale]]

\* The store after the start-up systems setup and wall_setup, for a grid of
\* nr rows by nc columns and a ball velocity v.
Setup(nr, nc, v) ==
  <<PaddleEntity(1), BallEntity(2, v)>> \o BrickEntities(3, nr, nc) \o WallEntities(3 + nr * nc)

\* Everything but the entity store, as main and the start-up systems leave it.
InitRest ==
  /\ score = 0
  /\ keys = <<>>
  /\ ran = {}
  /\ tick = 0
  /\ contacts = <<>>
  /\ touched = {}
  /\ hitCells = {}
  /\ heldLeft = 0
  /\ probe = <<>>
  /\ collision_events = 0
  /\ cues = 0

Init ==
  /\ entities = Setup(n_rows, n_columns, InitialBallVelocity)
  /\ grid = <<n_rows, n_columns>>
  /\ horizon = MaxTicks
  /\ InitRest

\* The program's start-up state, followed for MaxArenaTicks ticks.
InitArena ==
  /\ entities = Setup(n_rows, n_columns, InitialBallVelocity)
  /\ grid = <<n_rows, n_columns>>
  /\ horizon = MaxArenaTicks
  /\ InitRest

\* BALL_SPEED along the direction (35, -19), which takes the ball from its
\* starting position into the corner of the right and the bottom wall
\* (units per tick, rounded).
CornerBallVelocity == <<352, -191>>

\* Scenario: the program's start-up state, with the ball's velocity either
\* the program's or the one towards the corner.
InitCorner ==
  /\ \E v \in {InitialBallVelocity, CornerBallVelocity} :
       entities = Setup(n_rows, n_columns, v)
  /\ grid = <<n_rows, n_columns>>
  /\ horizon = MaxCornerTicks
  /\ InitRest

\* Scenario: the program's start-up state, but the ball (at the arena's
\* horizontal centre) moves straight down at BALL_SPEED.
InitDrop ==
  /\ entities = Setup(n_rows, n_columns, <<0, -BALL_SPEED>>)
  /\ grid = <<n_rows, n_columns>>
  /\ horizon = MaxDropTicks
  /\ InitRest

\* Scenario: a grid of R rows by one column (which setup centres on the
\* arena's centre line) and the ball moving straight up at BALL_SPEED.
InitRally ==
  /\ \E R \in 1..MaxRallyRows : entities = Setup(R, 1, <<0, BALL_SPEED>>) /\ grid = <<R, 1>>
  /\ horizon = MaxRallyTicks
  /\ InitRest

\* ------------------------------------------------------------- queries

\* The indices of the store whose entity has the given marker component.
WithKind(es, k) == {i \in 1..Len(es) : es[i].kind = k}

\* Query::single_mut: the one matching entity; the system panics otherwise.
HasSingle(es, k) == Cardinality(WithKind(es, k)) = 1

Single(es, k) == CHOOSE i \in WithKind(es, k) : TRUE

\* ---------------------------------------------------------- move_paddle

left_bound == Px(LEFT_WALL) + Px(WALL_THICKNESS) \div 2 + Px(PADDLE_SIZE_x) \div 2 + Px(PADDLE_PADDING)

right_bound == Px(RIGHT_WALL) - Px(WALL_THICKNESS) \div 2 - Px(PADDLE_SIZE_x) \div 2 - Px(PADDLE_PADDING)

\* Mutant of Direction: the right key overrides the left key.
Direction_rightWins(left, right) == IF right THEN 1 ELSE IF left THEN -1 ELSE 0

\* direction, from the two key states
Direction(left, right) == (IF left THEN -1 ELSE 0) + (IF right THEN 1 ELSE 0)

\* Mutant of NewPaddleX: the new position is stored without the clamp.
NewPaddleX_noClamp(x, left, right) == x + Direction(left, right) * PADDLE_SPEED

\* The paddle's x after one move_paddle with the given key states.  The
\* displacement direction * PADDLE_SPEED * TIME_STEP is direction * PADDLE_SPEED units.
NewPaddleX(x, left, right) ==
  LET new_paddle_position == x + Direction(left, right) * PADDLE_SPEED
  IN Clamp(new_paddle_position, left_bound, right_bound)

MovePaddle ==
  /\ tick < horizon
  /\ "move_paddle" \notin ran
  /\ HasSingle(entities, "Paddle")
  /\ \E left \in BOOLEAN, right \in BOOLEAN :
       \E p \in {Single(entities, "Paddle")} :
       \E x \in {entities[p].translation[1]} :
          /\ entities' = [entities EXCEPT ![p].translation[1] = NewPaddleX(x, left, right)]
          /\ keys' = <<left, right>>
          /\ heldLeft' = IF heldLeft >= 0 /\ left /\ ~right THEN heldLeft + 1 ELSE -1
  /\ ran' = ran \cup {"move_paddle"}
  /\ UNCHANGED <<score, tick, horizon, contacts, touched, hitCells, grid, probe, collision_events, cues>>

\* -------------------------------------------------------- apply_velocity

\* Query<(&mut Transform, &Velocity)>: the entities that have a Velocity.
WithVelocity(es) == {i \in 1..Len(es) : "velocity" \in DOMAIN es[i]}

\* transform.translation += velocity * TIME_STEP, on both axes
Integrate(e) ==
  [e EXCEPT !.translation = <<e.translation[1] + e.velocity[1], e.translation[2] + e.velocity[2]>>]

\* The loop of apply_velocity over the entities at the indices todo.
RECURSIVE IntegrateAll(_, _)
IntegrateAll(es, todo) ==
  IF todo = {} THEN es
  ELSE LET i == CHOOSE k \in todo : TRUE
       IN IntegrateAll([es EXCEPT ![i] = Integrate(es[i])], todo \ {i})

ApplyVelocity ==
  /\ tick < horizon
  /\ "apply_velocity" \notin ran
  /\ entities' = IntegrateAll(entities, WithVelocity(entities))
  /\ ran' = ran \cup {"apply_velocity"}
  /\ UNCHANGED <<score, keys, tick, horizon, contacts, touched, hitCells, grid, heldLeft, probe, collision_events, cues>>

\* ------------------------------------- bevy::sprite::collide_aabb::collide

\* A penetration depth: <<TRUE, d>> is the finite depth d, <<FALSE, 0>> is
\* the -f32::INFINITY that goes with Collision::Inside.
InfiniteDepth == <<FALSE, 0>>

\* y_depth.abs() < x_depth.abs()
AbsLess(y_depth, x_depth) ==
  /\ y_depth[1]
  /\ (~x_depth[1] \/ Abs(y_depth[2]) < Abs(x_depth[2]))

\* collide(a_pos, a_size, b_pos, b_size): "None", or the side of b that a overlaps.
collide(a_pos, a_size, b_pos, b_size) ==
  LET a_min == <<a_pos[1] - a_size[1] \div 2, a_pos[2] - a_size[2] \div 2>>
      a_max == <<a_pos[1] + a_size[1] \div 2, a_pos[2] + a_size[2] \div 2>>
      b_min == <<b_pos[1] - b_size[1] \div 2, b_pos[2] - b_size[2] \div 2>>
      b_max == <<b_pos[1] + b_size[1] \div 2, b_pos[2] + b_size[2] \div 2>>
      x == IF a_min[1] < b_min[1] /\ a_max[1] < b_max[1] THEN <<"Left", <<TRUE, b_min[1] - a_max[1]>> >>
           ELSE IF a_min[1] > b_min[1] /\ a_max[1] > b_max[1] THEN <<"Right", <<TRUE, a_min[1] - b_max[1]>> >>
           ELSE <<"Inside", InfiniteDepth>>
      y == IF a_min[2] < b_min[2] /\ a_max[2] < b_max[2] THEN <<"Bottom", <<TRUE, b_min[2] - a_max[2]>> >>
           ELSE IF a_min[2] > b_min[2] /\ a_max[2] > b_max[2] THEN <<"Top", <<TRUE, a_min[2] - b_max[2]>> >>
           ELSE <<"Inside", InfiniteDepth>>
  IN IF a_min[1] < b_max[1] /\ a_max[1] > b_min[1] /\ a_min[2] < b_max[2] /\ a_max[2] > b_min[2]
       THEN IF AbsLess(y[2], x[2]) THEN y[1] ELSE x[1]
       ELSE "None"

\* ------------------------------------------------- check_for_collisions

\* let ball_size = Vec2::new(BALL_SIZE, BALL_SIZE): the a_size handed to collide
ball_size == <<Px(BALL_SIZE), Px(BALL_SIZE)>>

\* The b_size handed to collide: the collider's Transform scale, truncated to 2D.
ColliderSize(e) == e.scale

\* With<Collider>: the paddle, the bricks and the walls are spawned with a Collider.
HasCollider(e) == e.kind \in {"Paddle", "Brick", "Wall"}

\* Mutant of IsBrick: every collider is treated as a brick.
IsBrick_anyCollider(e) == TRUE

\* maybe_brick.is_some()
IsBrick(e) == e.kind = "Brick"

\* Mutant of Reflect: the component is negated whichever way the ball moves.
Reflect_unconditional(v, collision) ==
  <<IF collision \in {"Left", "Right"} THEN -v[1] ELSE v[1],
    IF collision \in {"Top", "Bottom"} THEN -v[2] ELSE v[2]>>

\* Mutant of Reflect: the tests for Top and Bottom are exchanged.
Reflect_topBottomSwapped(v, collision) ==
  LET reflect_x == CASE collision = "Left" -> v[1] > 0
                     [] collision = "Right" -> v[1] < 0
                     [] OTHER -> FALSE
      reflect_y == CASE collision = "Top" -> v[2] > 0
                     [] collision = "Bottom" -> v[2] < 0
                     [] OTHER -> FALSE
  IN <<IF reflect_x THEN -v[1] ELSE v[1], IF reflect_y THEN -v[2] ELSE v[2]>>

\* Mutant of Reflect: the velocity is left as it is whatever the side.
Reflect_never(v, collision) == v

\* Mutant of Reflect: a reflected component also loses half its magnitude.
Reflect_dampened(v, collision) ==
  LET reflect_x == CASE collision = "Left" -> v[1] > 0
                     [] collision = "Right" -> v[1] < 0
                     [] OTHER -> FALSE
      reflect_y == CASE collision = "Top" -> v[2] < 0
                     [] collision = "Bottom" -> v[2] > 0
                     [] OTHER -> FALSE
  IN <<IF reflect_x THEN -(v[1] \div 2) ELSE v[1], IF reflect_y THEN -(v[2] \div 2) ELSE v[2]>>

\* The match on the contact side and the two conditional negations.
Reflect(v, collision) ==
  LET reflect_x == CASE collision = "Left" -> v[1] > 0
                     [] collision = "Right" -> v[1] < 0
                     [] OTHER -> FALSE
      reflect_y == CASE collision = "Top" -> v[2] < 0
                     [] collision = "Bottom" -> v[2] > 0
                     [] OTHER -> FALSE
  IN <<IF reflect_x THEN -v[1] ELSE v[1], IF reflect_y THEN -v[2] ELSE v[2]>>

\* What a contact is remembered by: a wall by its location, the rest by kind.
Label(e) == IF e.kind = "Wall" THEN e.loc ELSE e.kind

\* Mutant of CollisionStep: the score is incremented for every contact.
CollisionStep_scoresEveryContact(ball_translation, e, acc) ==
  LET collision == collide(ball_translation, ball_size, e.translation, ColliderSize(e))
  IN IF collision = "None" THEN acc
     ELSE [velocity |-> Reflect(acc.velocity, collision),
           score |-> acc.score + 1,
           commands |-> IF IsBrick(e) THEN Append(acc.commands, e.id) ELSE acc.commands,
           contacts |-> Append(acc.contacts, [id |-> e.id, label |-> Label(e), side |-> collision]),
           cells |-> IF e.kind = "Brick" THEN acc.cells \cup {e.cell} ELSE acc.cells]

\* One iteration of `for (collider_entity, transform, maybe_brick) in &collider_query`
\* for the collider e, on the loop's running state acc.
CollisionStep(ball_translation, e, acc) ==
  LET collision == collide(ball_translation, ball_size, e.translation, ColliderSize(e))
  IN IF collision = "None" THEN acc
     ELSE [velocity |-> Reflect(acc.velocity, collision),
           score |-> IF IsBrick(e) THEN acc.score + 1 ELSE acc.score,
           commands |-> IF IsBrick(e) THEN Append(acc.commands, e.id) ELSE acc.commands,
           contacts |-> Append(acc.contacts, [id |-> e.id, label |-> Label(e), side |-> collision]),
           cells |-> IF e.kind = "Brick" THEN acc.cells \cup {e.cell} ELSE acc.cells]

\* The indices of the colliders for which collide returns Some(collision):
\* the iterations of the loop whose `if let` body runs.
Overlapped(es, ball_translation) ==
  {i \in 1..Len(es) : /\ HasCollider(es[i])
                      /\ collide(ball_translation, ball_size, es[i].translation, ColliderSize(es[i])) # "None"}

\* The loop over the collider query, in the store's order, over the indices todo.
RECURSIVE CollisionLoop(_, _, _, _)
CollisionLoop(es, ball_translation, todo, acc) ==
  IF todo = {} THEN acc
  ELSE LET i == CHOOSE k \in todo : \A m \in todo : k <= m
       IN CollisionLoop(es, ball_translation, todo \ {i}, CollisionStep(ball_translation, es[i], acc))

\* Mutant of Despawn: the last row of the table is dropped, without first
\* moving it into the place of the despawned entity.
Despawn_dropsLastRow(es, id) ==
  LET at == {i \in 1..Len(es) : es[i].id = id}
  IN IF at = {} THEN es
     ELSE LET i == CHOOSE k \in at : TRUE
              same == {k \in 1..Len(es) : es[k].kind = es[i].kind}
              last == CHOOSE k \in same : \A m \in same : m <= k
          IN SubSeq(es, 1, last - 1) \o SubSeq(es, last + 1, Len(es))

\* commands.entity(id).despawn(), applied: the entity's row is swap-removed
\* from its archetype's table (the last row of the same archetype takes its place).
Despawn(es, id) ==
  LET at == {i \in 1..Len(es) : es[i].id = id}
  IN IF at = {} THEN es
     ELSE LET i == CHOOSE k \in at : TRUE
              same == {k \in 1..Len(es) : es[k].kind = es[i].kind}
              last == CHOOSE k \in same : \A m \in same : m <= k
              moved == [es EXCEPT ![i] = es[last]]
          IN SubSeq(moved, 1, last - 1) \o SubSeq(moved, last + 1, Len(moved))

\* Mutant of ApplyBuffers: the buffered commands are never applied.
ApplyBuffers_neverApplied(es, commands) == es

\* The command buffer applied after the system, in the order the commands were issued.
RECURSIVE ApplyBuffers(_, _)
ApplyBuffers(es, commands) ==
  IF commands = <<>> THEN es
  ELSE ApplyBuffers(Despawn(es, Head(commands)), Tail(commands))

\* Mutant of CollisionsMayRun: apply_velocity is added without its .before label.
CollisionsMayRun_applyUnordered == "move_paddle" \in ran

\* move_paddle.before(check_for_collisions) and apply_velocity.before(check_for_collisions):
\* check_for_collisions starts once both have run in the tick.
CollisionsMayRun == {"move_paddle", "apply_velocity"} \subseteq ran

CheckForCollisions ==
  /\ tick < horizon
  /\ CollisionsMayRun
  /\ HasSingle(entities, "Ball")
  /\ \E b \in {Single(entities, "Ball")} :
     \E end \in {CollisionLoop(entities, entities[b].translation,
                               Overlapped(entities, entities[b].translation),
                               [velocity |-> entities[b].velocity, score |-> score,
                                commands |-> <<>>, contacts |-> <<>>, cells |-> {}])} :
        /\ entities' = ApplyBuffers([entities EXCEPT ![b].velocity = end.velocity], end.commands)
        /\ score' = end.score
        /\ contacts' = end.contacts
        /\ touched' = touched \cup {end.contacts[k].label : k \in 1..Len(end.contacts)}
        /\ hitCells' = hitCells \cup end.cells
        /\ collision_events' = Len(end.contacts)
  /\ ran' = {}
  /\ tick' = tick + 1
  /\ keys' = <<>>
  /\ cues' = 0
  /\ UNCHANGED <<horizon, grid, heldLeft, probe>>

\* ------------------------------------------------- play_collision_sound

\* play_collision_sound: when the reader has unread events it clears them and
\* plays the sound once.  main does not add this system to the fixed-timestep
\* set (the with_system line is commented out), so it is not a disjunct of Next.
PlayCollisionSound ==
  /\ ran = {}
  /\ tick > 0
  /\ IF collision_events # 0
       THEN collision_events' = 0 /\ cues' = cues + 1
       ELSE UNCHANGED <<collision_events, cues>>
  /\ UNCHANGED <<entities, score, keys, ran, tick, horizon, contacts, touched, hitCells, grid, heldLeft, probe>>

\* ------------------------------------------------------ the schedule

\* One fixed tick is move_paddle and apply_velocity, each .before(check_for_collisions)
\* and unordered between themselves, then check_for_collisions.  (update_scoreboard,
\* which runs once per frame outside the set, only reads the score into the
\* display text; camera_movement moves only the camera.  Neither is modelled.)
Next ==
  \/ MovePaddle
  \/ ApplyVelocity
  \/ CheckForCollisions

Spec == Init /\ [][Next]_vars

SpecDrop == InitDrop /\ [][Next]_vars

SpecRally == InitRally /\ [][Next]_vars

SpecArena == InitArena /\ [][Next]_vars

SpecCorner == InitCorner /\ [][Next]_vars

\* ------------------------------------------- the reflection rule, alone

ContactSides == {"Left", "Right", "Top", "Bottom", "Inside"}

\* The response of check_for_collisions to one reported contact, applied to
\* a velocity and a side drawn from bounded sets.
ReflectProbe ==
  /\ \E vx \in -MaxV..MaxV, vy \in -MaxV..MaxV, side \in ContactSides :
       probe' = [v |-> <<vx, vy>>, side |-> side, out |-> Reflect(<<vx, vy>>, side)]
  /\ UNCHANGED <<entities, score, keys, ran, tick, horizon, contacts, touched, hitCells, grid, heldLeft, collision_events, cues>>

NextReflect == ReflectProbe

SpecReflect == Init /\ [][NextReflect]_vars

\* ------------------------------------------------------- observations

\* paddle_transform.translation.x of the paddle(s) in the store
PaddleXs == {entities[i].translation[1] : i \in WithKind(entities, "Paddle")}

\* The ids of the live bricks.
BrickIds(es) == {es[i].id : i \in WithKind(es, "Brick")}

\* The ids of all entities of the store.
Ids(es) == {es[i].id : i \in 1..Len(es)}

\* The step is check_for_collisions ending a tick.
CollisionPassStep == tick' = tick + 1

\* ----------------------------------------------------------------- C1

\* C1: after any sequence of ticks with any left/right key states the paddle's
\* x is within [left_bound, right_bound], with left_bound = LEFT_WALL +
\* WALL_THICKNESS/2 + PADDLE_SIZE.x/2 + PADDLE_PADDING and right_bound =
\* RIGHT_WALL - WALL_THICKNESS/2 - PADDLE_SIZE.x/2 - PADDLE_PADDING, so the
\* paddle's box (PADDLE_SIZE.x wide) never overlaps the left or the right wall.
C1_PaddleWithinBounds ==
  LET half_wall == Px(WALL_THICKNESS) \div 2
      half_paddle == Px(PADDLE_SIZE_x) \div 2
      lb == Px(LEFT_WALL) + half_wall + half_paddle + Px(PADDLE_PADDING)
      rb == Px(RIGHT_WALL) - half_wall - half_paddle - Px(PADDLE_PADDING)
  IN \A x \in PaddleXs :
       /\ lb <= x /\ x <= rb
       /\ x - half_paddle >= Px(LEFT_WALL) + half_wall
       /\ x + half_paddle <= Px(RIGHT_WALL) - half_wall

\* The paddle stands at the right bound after a move to the right that the
\* clamp cut short (46 unclamped moves from 0 would pass the bound).
C1_Witness ==
  /\ keys = <<FALSE, TRUE>>
  /\ tick >= 45
  /\ PaddleXs = {Px(RIGHT_WALL) - Px(WALL_THICKNESS) \div 2 - Px(PADDLE_SIZE_x) \div 2 - Px(PADDLE_PADDING)}

\* ----------------------------------------------------------------- C9

\* C9: with the paddle at x = 0 and only the left key pressed on each of T
\* consecutive ticks, the paddle's x after the T ticks is
\* max(left_bound, -PADDLE_SPEED * T * TIME_STEP), for every T >= 0; and a tick
\* in which both keys or neither are pressed leaves the paddle's x unchanged.
C9_HeldLeft ==
  /\ [](heldLeft >= 0 =>
         PaddleXs = {Max(Px(LEFT_WALL) + Px(WALL_THICKNESS) \div 2 + Px(PADDLE_SIZE_x) \div 2 + Px(PADDLE_PADDING),
                         -(PADDLE_SPEED * heldLeft))})
  /\ [][keys' \in {<<TRUE, TRUE>>, <<FALSE, FALSE>>} => PaddleXs' = PaddleXs]_vars

\* Left has been held from the start for more ticks than the paddle needs to
\* reach the bound, and the paddle stands at the bound.
C9_Witness ==
  /\ heldLeft > 45
  /\ keys = <<TRUE, FALSE>>
  /\ PaddleXs = {Px(LEFT_WALL) + Px(WALL_THICKNESS) \div 2 + Px(PADDLE_SIZE_x) \div 2 + Px(PADDLE_PADDING)}

\* ----------------------------------------------------------------- C4

\* C4 as stated: in every tick move_paddle, apply_velocity and
\* check_for_collisions run in that strict order; so apply_velocity has never
\* run in a tick in which move_paddle has not.
C4_StrictOrder == "apply_velocity" \in ran => "move_paddle" \in ran

\* C4, amended: in every tick move_paddle and apply_velocity each run once and
\* complete before check_for_collisions starts, in either order between
\* themselves; the collision pass therefore always sees the ball position
\* already advanced for that tick.
C4_BothBeforeCollisions ==
  /\ [][CollisionPassStep => (ran = {"move_paddle", "apply_velocity"} /\ ran' = {})]_vars
  /\ [][~CollisionPassStep => (tick' = tick /\ Cardinality(ran') = Cardinality(ran) + 1)]_vars

\* Both systems have run in a tick whose collision pass has not yet started,
\* in a run in which an earlier tick's pass already processed a contact.
C4_Witness ==
  /\ ran = {"move_paddle", "apply_velocity"}
  /\ "Bottom" \in touched

\* ----------------------------------------------------------------- C6

\* C6: after any sequence of ticks exactly one ball, exactly one paddle and
\* the four walls exist, the walls where and as large as wall_setup made them;
\* the collision pass removes only bricks, and a pass that processes no brick
\* (wall and paddle contacts only) leaves the score unchanged.
C6_OnlyBricksRemoved ==
  /\ [](/\ Cardinality(WithKind(entities, "Ball")) = 1
        /\ Cardinality(WithKind(entities, "Paddle")) = 1
        /\ {<<entities[i].loc, entities[i].translation, entities[i].scale>> : i \in WithKind(entities, "Wall")}
             = {<<"Left", <<Px(LEFT_WALL), 0>>, <<Px(WALL_THICKNESS), Px(TOP_WALL - BOTTOM_WALL + WALL_THICKNESS)>> >>,
                <<"Right", <<Px(RIGHT_WALL), 0>>, <<Px(WALL_THICKNESS), Px(TOP_WALL - BOTTOM_WALL + WALL_THICKNESS)>> >>,
                <<"Bottom", <<0, Px(BOTTOM_WALL)>>, <<Px(RIGHT_WALL - LEFT_WALL + WALL_THICKNESS), Px(WALL_THICKNESS)>> >>,
                <<"Top", <<0, Px(TOP_WALL)>>, <<Px(RIGHT_WALL - LEFT_WALL + WALL_THICKNESS), Px(WALL_THICKNESS)>> >>}
        /\ Cardinality(WithKind(entities, "Wall")) = 4)
  /\ [][/\ Ids(entities) \ Ids(entities') \subseteq BrickIds(entities)
        /\ (\A k \in 1..Len(contacts') : contacts'[k].label # "Brick") => score' = score]_vars

\* A collision pass has just processed a contact with a wall, an earlier one
\* processed a contact with the paddle, and both are still there.
C6_Witness ==
  /\ ran = {} /\ tick > 0
  /\ \E k \in 1..Len(contacts) : contacts[k].label = "Bottom"
  /\ "Paddle" \in touched
  /\ Cardinality(WithKind(entities, "Wall")) = 4
  /\ Cardinality(WithKind(entities, "Paddle")) = 1

\* ----------------------------------------------------------------- C10

\* The colliders of the store that the axis-aligned square of the given side,
\* centred on the ball, overlaps.
OverlappedBySquare(side) ==
  {entities[i].id : i \in
     {i \in 1..Len(entities) :
        /\ entities[i].kind # "Ball"
        /\ \E b \in WithKind(entities, "Ball") :
             /\ 2 * Abs(entities[b].translation[1] - entities[i].translation[1]) < side + entities[i].scale[1]
             /\ 2 * Abs(entities[b].translation[2] - entities[i].translation[2]) < side + entities[i].scale[2]}}

\* C10: in every collision test the ball is the axis-aligned square of side
\* 2 * radius (radius = BALL_SIZE) centred on the ball position: when a pass
\* has just run, every collider that square overlaps has been processed.
C10_BallSquareIsDiameter ==
  (ran = {} /\ tick > 0) =>
     OverlappedBySquare(2 * Px(BALL_SIZE)) \subseteq {contacts[k].id : k \in 1..Len(contacts)}

\* ----------------------------------------------------------------- C5

\* C5: for every ball velocity (vx, vy) and every contact side reported for
\* one collider: Left gives (-vx, vy) if vx > 0, else the velocity unchanged;
\* Right gives (-vx, vy) if vx < 0, else unchanged; Top gives (vx, -vy) if
\* vy < 0, else unchanged; Bottom gives (vx, -vy) if vy > 0, else unchanged;
\* Inside never changes the velocity.  At most one component is negated.
C5_ReflectionLaw ==
  probe # <<>> =>
    LET vx == probe.v[1]
        vy == probe.v[2]
    IN /\ probe.side = "Left" => probe.out = IF vx > 0 THEN <<-vx, vy>> ELSE <<vx, vy>>
       /\ probe.side = "Right" => probe.out = IF vx < 0 THEN <<-vx, vy>> ELSE <<vx, vy>>
       /\ probe.side = "Top" => probe.out = IF vy < 0 THEN <<vx, -vy>> ELSE <<vx, vy>>
       /\ probe.side = "Bottom" => probe.out = IF vy > 0 THEN <<vx, -vy>> ELSE <<vx, vy>>
       /\ probe.side = "Inside" => probe.out = <<vx, vy>>
       /\ probe.out[1] = vx \/ probe.out[2] = vy

\* A Left contact met with a positive x velocity has negated it and kept y.
C5_Witness ==
  /\ probe # <<>>
  /\ probe.side = "Left" /\ probe.v = <<MaxV, -1>> /\ probe.out = <<-MaxV, -1>>

\* ----------------------------------------------------------------- C8

\* The ball's velocity.
BallVelocities == {entities[i].velocity : i \in WithKind(entities, "Ball")}

\* C8: a ball at the arena's horizontal centre with velocity (0, -S) and no
\* paddle or brick on its path keeps velocity (0, -S) on every tick until the
\* tick in which its box first overlaps the bottom wall; after that tick's
\* collision pass its velocity is (0, +S), and on the following ticks it moves
\* upward without the bottom wall reflecting it again (S = BALL_SPEED; the
\* claim is about the time before the ball meets the paddle, a brick or
\* another wall).
C8_StraightDropBounces ==
  touched \subseteq {"Bottom"} =>
    BallVelocities = {IF "Bottom" \in touched THEN <<0, BALL_SPEED>> ELSE <<0, -BALL_SPEED>>}

\* The ball has bounced off the bottom wall and has since risen, still moving
\* straight up, past the height it started from.
C8_Witness ==
  /\ touched = {"Bottom"}
  /\ BallVelocities = {<<0, BALL_SPEED>>}
  /\ \E i \in WithKind(entities, "Ball") :
       /\ entities[i].translation[1] = (Px(LEFT_WALL) + Px(RIGHT_WALL)) \div 2
       /\ entities[i].translation[2] > Px(BALL_STARTING_POSITION_y)

\* ----------------------------------------------------------------- C2

\* The number of live bricks in a store.
NBricks(es) == Cardinality(WithKind(es, "Brick"))

\* C2: the score starts at 0; over every tick the score after equals the score
\* before plus the number of bricks the tick's collision pass removed from the
\* live set; the score never decreases; and only check_for_collisions changes it.
C2_ScoreCountsRemovedBricks ==
  /\ score = 0
  /\ [][/\ score' = score + (NBricks(entities) - NBricks(entities'))
        /\ score' >= score
        /\ score' # score => CollisionPassStep]_vars

\* A collision pass has just removed a brick and the score went from 0 to 1.
C2_Witness ==
  /\ score = 1
  /\ \E k \in 1..Len(contacts) : contacts[k].label = "Brick"
  /\ NBricks(entities) = grid[1] * grid[2] - 1

\* ----------------------------------------------------------------- C3

\* The ids of the bricks the latest pass processed.
BrickContactIds(cs) == {cs[k].id : k \in {k \in 1..Len(cs) : cs[k].label = "Brick"}}

\* C3: a brick the ball overlaps in some tick is scored and destroyed exactly
\* once.  Within the pass it is processed at most once and scores one point;
\* the despawn has taken effect when the pass is over, so in every later tick
\* it is absent from the collider set (a pass processes only colliders that
\* are in the store) and it is never re-created.
C3_BrickDestroyedOnce ==
  /\ [](/\ \A j, k \in 1..Len(contacts) : contacts[j].id = contacts[k].id => j = k
        /\ BrickContactIds(contacts) \cap Ids(entities) = {}
        /\ score = Cardinality(hitCells))
  /\ [][/\ BrickIds(entities') \subseteq BrickIds(entities)
        /\ CollisionPassStep =>
             /\ {contacts'[k].id : k \in 1..Len(contacts')} \subseteq Ids(entities)
             /\ score' = score + Cardinality(BrickContactIds(contacts'))
             /\ BrickIds(entities') = BrickIds(entities) \ BrickContactIds(contacts')]_vars

\* In a grid of two rows the first brick was destroyed in an earlier tick, and
\* the ball has since crossed the place where it was (there to reach the second
\* brick) with that brick absent and not processed again.
C3_Witness ==
  /\ grid = <<2, 1>>
  /\ hitCells = {<<0, 0>>, <<1, 0>>}
  /\ score = 2
  /\ NBricks(entities) = 0

\* ----------------------------------------------------------------- C7

\* C7: starting from a grid of R rows by C columns of live bricks and score 0,
\* the score plus the number of live bricks is R * C in every state, so the
\* score never exceeds R * C; and once every brick of the grid has been
\* overlapped by the ball the score is exactly R * C and no brick is live.
C7_ScoreReachesGridSize ==
  /\ score + NBricks(entities) = grid[1] * grid[2]
  /\ score <= grid[1] * grid[2]
  /\ hitCells = (0..(grid[1] - 1)) \X (0..(grid[2] - 1)) =>
       (score = grid[1] * grid[2] /\ NBricks(entities) = 0)
  /\ NBricks(entities) = 0 => score = grid[1] * grid[2]

\* Both bricks of a grid of two rows by one column have been destroyed, one
\* after the other, and a pass has run since with nothing left to hit.
C7_Witness ==
  /\ grid = <<2, 1>>
  /\ NBricks(entities) = 0
  /\ score = 2
  /\ ran = {} /\ contacts = <<>>

\* ---------------------------------------------------------------- C11

\* The step starts the tick after a completed collision pass.
NextTickStarts == ran = {} /\ tick > 0 /\ ran' # {}

\* C11: in every tick whose collision pass processed at least one contact, one
\* notification was emitted per processed contact, and by the time the next
\* tick starts play_collision_sound has consumed them and played a cue for
\* that tick; after a pass with no contact no cue has been played.
C11_CuePlayedForContactTick ==
  [][NextTickStarts =>
       /\ contacts # <<>> => (cues = 1 /\ collision_events = 0)
       /\ contacts = <<>> => cues = 0]_vars

\* ---------------------------------------------------------------- C12

\* The translations of the ball(s) in the store.
BallTranslations == {entities[i].translation : i \in WithKind(entities, "Ball")}

\* C12: starting from the initial ball position and velocity, after any
\* sequence of ticks and any paddle inputs the ball's centre is strictly
\* between LEFT_WALL and RIGHT_WALL in x and strictly between BOTTOM_WALL and
\* TOP_WALL in y, although apply_velocity never clamps the position.
C12_BallStaysInArena ==
  \A t \in BallTranslations :
    /\ Px(LEFT_WALL) < t[1] /\ t[1] < Px(RIGHT_WALL)
    /\ Px(BOTTOM_WALL) < t[2] /\ t[2] < Px(TOP_WALL)

\* The ball has been turned back by each of the four walls.
C12_Witness ==
  /\ {"Left", "Right", "Bottom", "Top"} \subseteq touched
  /\ ran = {}

\* ---------------------------------------------------------------- C13

\* A velocity with vx and/or vy negated, or unchanged.
Negations(v) == {<<a * v[1], b * v[2]>> : a \in {1, -1}, b \in {1, -1}}

\* C13: the only change any step makes to the ball velocity is negating vx
\* and/or vy, so |vx| and |vy| are in every reachable state what they were at
\* start-up; this also when the pass processed several colliders and applied
\* their reflections one after another to the velocity as changed so far.
C13_SpeedComponentsKept ==
  [][\A v \in BallVelocities : BallVelocities' \subseteq Negations(v)]_vars

\* A pass has just processed the right and the bottom wall, one after the
\* other, and negated vx for the first and vy for the second.
C13_Witness ==
  /\ ran = {} /\ tick > 0
  /\ Len(contacts) = 2
  /\ contacts[1].label = "Right" /\ contacts[1].side = "Left"
  /\ contacts[2].label = "Bottom" /\ contacts[2].side = "Top"
  /\ BallVelocities = {<<-CornerBallVelocity[1], -CornerBallVelocity[2]>>}

====
